---- MODULE Spec2Model ----
(***************************************************************************)
(* Reconciliation of a declared Sonarr configuration against a live        *)
(* instance: the settings orchestrator (SonarrSettings), the tags section  *)
(* (SonarrTagsSettings), the list-exclusions collection                    *)
(* (ListExclusionsSettings / ListExclusion) and the download-client entry  *)
(* (DownloadClient).  The remote instance is the collaborator behind the   *)
(* generated API client: list / create / update / delete per resource.     *)
(***************************************************************************)
EXTENDS Integers, Sequences, FiniteSets, TLC

(* ------------------------------ bounds -------------------------------- *)

\* How many of the sections whose body is not modelled may report a change.
MaxChanged == 1

\* The largest tmdb_id a list exclusion carries.
MaxTmdbId == 2

\* The most list exclusions a local collection declares.
MaxDefs == 2

\* Tag labels a configuration may declare or reference.
Labels == {"anime", "tv"}

\* Titles and years of list exclusions.
Titles == {"A", "B"}

Years == {2000}

\* Names of download-client / indexer definitions.
ClientNames == {"c1"}

(* ------------------------------ helpers ------------------------------- *)

\* All enumerations of a finite set (the orders a Python set may iterate in).
Perms(S) ==
  {s \in [1..Cardinality(S) -> S] : \A i, j \in 1..Cardinality(S) : i # j => s[i] # s[j]}

\* Python's sorted() over a set of integers.
Sorted(S) ==
  CHOOSE s \in Perms(S) : \A i, j \in 1..Cardinality(S) : i < j => s[i] < s[j]

Range(s) == {s[i] : i \in 1..Len(s)}

MaxOf(S) == IF S = {} THEN 0 ELSE CHOOSE m \in S : \A x \in S : x <= m

\* The id the remote instance assigns to a new resource of a collection.
NewId(resources) == MaxOf({r.id : r \in resources}) + 1

(* ------------------------------- state -------------------------------- *)

VARIABLES
  entry,     \* the operation this run calls: "settings", "tags", "exclusions", "download_clients"
  mode,      \* "update" (update_remote) or "delete" (delete_remote)
  local,     \* self: the local configuration tree
  remote,    \* the `remote` argument: the configuration read from the instance before the call
  server,    \* the live state of the remote instance
  server0,   \* the state of the remote instance when the run began
  calls,     \* every remote API call issued so far, in order
  trace,     \* section call / return events, in order
  results,   \* the list any([...]) is building: one boolean per finished section
  frame,     \* the running section's local variables
  outcome    \* the run's result: running, returned (value) or raised (err)

vars == <<entry, mode, local, remote, server, server0, calls, trace, results, frame, outcome>>

Sections ==
  {"tags", "quality", "custom_formats", "download_clients", "indexers",
   "media_management", "profiles", "metadata", "general", "ui"}

\* Sections whose reconciliation body lies outside the modelled files.
OpaqueSections ==
  {"quality", "custom_formats", "media_management", "profiles", "metadata", "general", "ui"}

ClientSections == {"download_clients", "indexers"}

NoFrame ==
  [sec |-> "none", pc |-> "none", todo |-> <<>>, i |-> 0, changed |-> FALSE,
   current |-> <<>>, tag_ids |-> <<>>, known |-> <<>>, mine |-> <<>>, order |-> <<>>]

Running == outcome.status = "running"

(* --------------------------- remote instance -------------------------- *)

\* One remote call as recorded: the section that issued it, the API, the
\* operation, the id it targets (0: none), the body it carries (for a list
\* call: the listing it answered), and whether the collaborator answered
\* (ok) or raised (status).
Call(sec, api, op, id, body, ok, status) ==
  [sec |-> sec, api |-> api, op |-> op, id |-> id, body |-> body, ok |-> ok, status |-> status]

\* Statuses a failing remote call may carry.
FailStatuses == {500}

ApiError(status, n) == [type |-> "SonarrAPIError", status |-> status, call |-> n, key |-> "none"]

\* A failed dict lookup; `key` is the missing key, as text.
KeyError(key) == [type |-> "KeyError", status |-> 0, call |-> 0, key |-> key]

\* label -> id table of a tag listing: {tag.label: tag.id for tag in list_tag()}
TagIds(tags) ==
  [l \in {t.label : t \in tags} |-> (CHOOSE t \in tags : t.label = l).id]

\* The instance's answer to create_tag: a tag with that label, under a new id
\* (a label it already knows keeps its tag).
ServerCreateTag(srv, label) ==
  IF \E t \in srv.tags : t.label = label
    THEN srv
    ELSE [srv EXCEPT !.tags = @ \cup {[id |-> NewId(srv.tags), label |-> label]}]

(* ----------------------------- orchestrator --------------------------- *)

UpdateOrderSwapped ==
  <<"tags", "quality", "custom_formats", "indexers", "download_clients",
    "media_management", "profiles", "metadata", "general", "ui">>

UpdateOrderTagsLate ==
  <<"quality", "custom_formats", "download_clients", "indexers", "tags",
    "media_management", "profiles", "metadata", "general", "ui">>

\* SonarrSettings.update_remote: the list literal's elements, top to bottom.
UpdateOrder ==
  <<"tags", "quality", "custom_formats", "download_clients", "indexers",
    "media_management", "profiles", "metadata", "general", "ui">>

DeleteOrderClientsFirst ==
  <<"profiles", "download_clients", "indexers", "media_management", "tags",
    "custom_formats", "quality", "metadata", "general", "ui">>

\* SonarrSettings.delete_remote: the list literal's elements, top to bottom.
DeleteOrder ==
  <<"profiles", "indexers", "download_clients", "media_management", "tags",
    "custom_formats", "quality", "metadata", "general", "ui">>

\* The sections the called operation runs, in order.  A section called on
\* its own is a list of one.
Order ==
  IF entry = "settings"
    THEN (IF mode = "update" THEN UpdateOrder ELSE DeleteOrder)
    ELSE <<entry>>

MoreSectionsShortCircuit(order, res) ==
  Len(res) < Len(order) /\ \A k \in 1..Len(res) : ~res[k]

\* any([...]) is handed a list: every element is evaluated before any()
\* looks at the first one.
MoreSections(order, res) == Len(res) < Len(order)

\* any(list)
AnyOf(res) == \E k \in 1..Len(res) : res[k]

ReturnFalse(b) ==
  /\ results' = Append(results, FALSE)
  /\ trace' = Append(trace, [ev |-> "return", sec |-> frame.sec, val |-> FALSE])
  /\ frame' = NoFrame
  /\ UNCHANGED outcome

\* The running section returns b to the orchestrator's list.
Return(b) ==
  /\ results' = Append(results, b)
  /\ trace' = Append(trace, [ev |-> "return", sec |-> frame.sec, val |-> b])
  /\ frame' = NoFrame
  /\ UNCHANGED outcome

PropagateSwallowed(err) ==
  /\ results' = Append(results, frame.changed)
  /\ trace' = Append(trace, [ev |-> "return", sec |-> frame.sec, val |-> frame.changed])
  /\ frame' = NoFrame
  /\ UNCHANGED outcome

\* An exception raised in a section: nothing on the way up catches it.
Propagate(err) ==
  /\ outcome' = [status |-> "raised", value |-> FALSE, err |-> err]
  /\ frame' = NoFrame
  /\ UNCHANGED <<results, trace>>

\* The orchestrator evaluates the next element of its list.
SectionCall ==
  /\ Running
  /\ frame.sec = "none"
  /\ MoreSections(Order, results)
  /\ LET s == Order[Len(results) + 1] IN
       /\ frame' = [NoFrame EXCEPT !.sec = s, !.pc = "start"]
       /\ trace' = Append(trace, [ev |-> "call", sec |-> s, val |-> FALSE])
  /\ UNCHANGED <<entry, mode, local, remote, server, server0, calls, results, outcome>>

\* The list is complete: return any(list).
Finish ==
  /\ Running
  /\ frame.sec = "none"
  /\ ~MoreSections(Order, results)
  /\ outcome' = [status |-> "returned", value |-> AnyOf(results), err |-> KeyError("none")]
  /\ UNCHANGED <<entry, mode, local, remote, server, server0, calls, trace, results, frame>>

(* -------------------- sections outside the modelled files ------------- *)

\* A section whose body is not modelled reports a change or not.
OpaqueReturn ==
  /\ Running
  /\ frame.sec \in OpaqueSections
  /\ \E b \in BOOLEAN :
       /\ b => Cardinality({k \in 1..Len(results) :
                              Order[k] \in OpaqueSections /\ results[k]}) < MaxChanged
       /\ Return(b)
  /\ UNCHANGED <<entry, mode, local, remote, server, server0, calls>>

\* ... or a remote call of it raises.
OpaqueRaise ==
  /\ Running
  /\ frame.sec \in OpaqueSections
  /\ \E st \in FailStatuses :
       /\ calls' = Append(calls, Call(frame.sec, "other", "update", 0, <<>>, FALSE, st))
       /\ Propagate(ApiError(st, Len(calls) + 1))
  /\ UNCHANGED <<entry, mode, local, remote, server, server0>>

(* ------------------------------ tags section -------------------------- *)

\* SonarrTagsSettings.update_remote, up to the loop: list the tags, build
\* current_tags, and fix the order the set self.definitions iterates in.
TagsList ==
  /\ Running
  /\ frame.sec = "tags" /\ frame.pc = "start" /\ mode = "update"
  /\ \/ /\ calls' = Append(calls, Call("tags", "tag", "list", 0, server.tags, TRUE, 0))
        /\ \E order \in Perms(local.tags) :
             frame' = [frame EXCEPT !.pc = "loop", !.todo = order, !.order = order,
                                    !.current = TagIds(server.tags)]
        /\ UNCHANGED <<results, trace, outcome>>
     \/ \E st \in FailStatuses :
          /\ calls' = Append(calls, Call("tags", "tag", "list", 0, <<>>, FALSE, st))
          /\ Propagate(ApiError(st, Len(calls) + 1))
  /\ UNCHANGED <<entry, mode, local, remote, server, server0>>

TagKnownNow(tag, current_tags) == \E t \in server.tags : t.label = tag

\* `if tag in current_tags`
TagKnown(tag, current_tags) == tag \in DOMAIN current_tags

\* One iteration of `for i, tag in enumerate(self.definitions)`.
TagsStep ==
  /\ Running
  /\ frame.sec = "tags" /\ frame.pc = "loop" /\ frame.todo # <<>>
  /\ LET tag == Head(frame.todo)
         rest == [frame EXCEPT !.todo = Tail(@), !.i = @ + 1]
     IN IF TagKnown(tag, frame.current)
          THEN /\ frame' = rest
               /\ UNCHANGED <<server, calls, results, trace, outcome>>
          ELSE \/ /\ calls' = Append(calls,
                        Call("tags", "tag", "create", 0, [label |-> tag], TRUE, 0))
                  /\ server' = ServerCreateTag(server, tag)
                  /\ frame' = [rest EXCEPT !.changed = TRUE]
                  /\ UNCHANGED <<results, trace, outcome>>
               \/ \E st \in FailStatuses :
                    /\ calls' = Append(calls,
                          Call("tags", "tag", "create", 0, [label |-> tag], FALSE, st))
                    /\ Propagate(ApiError(st, Len(calls) + 1))
                    /\ UNCHANGED server
  /\ UNCHANGED <<entry, mode, local, remote, server0>>

\* `return changed`
TagsReturn ==
  /\ Running
  /\ frame.sec = "tags" /\ frame.pc = "loop" /\ frame.todo = <<>>
  /\ Return(frame.changed)
  /\ UNCHANGED <<entry, mode, local, remote, server, server0, calls>>

\* SonarrTagsSettings defines no delete_remote: the delete pass of the tags
\* section issues no call and reports no change.
TagsDelete ==
  /\ Running
  /\ frame.sec = "tags" /\ frame.pc = "start" /\ mode = "delete"
  /\ Return(FALSE)
  /\ UNCHANGED <<entry, mode, local, remote, server, server0, calls>>

(* ------------------------- Newznab categories ------------------------ *)

\* The largest id a tag_ids table hands to the tags encoder and decoder.
MaxTagId == 2

\* Category numbers the enumeration does not know.
UnknownCategories == {1000, 9999}

\* class NabCategory: the members, each with its number and its name.
NabCategory ==
  <<[member |-> "TV", value |-> 5000, label |-> "TV"],
    [member |-> "TV_WEBDL", value |-> 5010, label |-> "TV/WEB-DL"],
    [member |-> "TV_FOREIGN", value |-> 5020, label |-> "TV/Foreign"],
    [member |-> "TV_SD", value |-> 5030, label |-> "TV/SD"],
    [member |-> "TV_HD", value |-> 5040, label |-> "TV/HD"],
    [member |-> "TV_UHD", value |-> 5045, label |-> "TV/UHD"],
    [member |-> "TV_OTHER", value |-> 5050, label |-> "TV/Other"],
    [member |-> "TV_SPORT", value |-> 5060, label |-> "TV/Sport"],
    [member |-> "TV_ANIME", value |-> 5070, label |-> "TV/Anime"],
    [member |-> "TV_DOCUMENTARY", value |-> 5080, label |-> "TV/Documentary"],
    [member |-> "TV_X265", value |-> 5090, label |-> "TV/x265"]>>

\* A value of type Union[NabCategory, int]: a member of the enumeration ...
NabMember(m) == [member |-> m, int |-> 0]

\* ... or a plain integer.
NabInt(n) == [member |-> "none", int |-> n]

\* isinstance(value, int)
IsInt(value) == value.member = "none"

NabCategoryDecodeAsInt(value) == NabInt(value)

\* NabCategory.decode: cls(value), or the value itself on ValueError.
NabCategoryDecode(value) ==
  IF \E k \in 1..Len(NabCategory) : NabCategory[k].value = value
    THEN NabMember((CHOOSE c \in Range(NabCategory) : c.value = value).member)
    ELSE NabInt(value)

\* NabCategory.encode: value if isinstance(value, int) else value.value
NabCategoryEncode(value) ==
  IF IsInt(value)
    THEN value.int
    ELSE (CHOOSE c \in Range(NabCategory) : c.member = value.member).value

\* NewznabIndexer.validate_categories, for one category of the set.
ValidateCategory(category) ==
  IF IsInt(category) THEN NabCategoryDecode(category.int) ELSE category

\* The numbers a remote resource may carry as a category.
CategoryNumbers == {NabCategory[k].value : k \in 1..Len(NabCategory)} \cup UnknownCategories

\* The categories a configuration may declare: members, or integers.
CategoryInputs ==
  {NabMember(NabCategory[k].member) : k \in 1..Len(NabCategory)}
    \cup {NabInt(n) : n \in CategoryNumbers}

\* Tables label -> id, over any part of the labels, injective or not.
TagIdTables == UNION {[D -> 1..MaxTagId] : D \in SUBSET Labels}

(* --------------------- projection and change detection ---------------- *)

\* A Python dict built by a comprehension over `seq`, keyed by field `f`:
\* keys keep the place of their first occurrence, a later entry with the
\* same key replaces the value.  Held as a sequence of [key, value].
DictBy(seq, f) ==
  LET first == {i \in 1..Len(seq) : \A j \in 1..(i - 1) : seq[j][f] # seq[i][f]}
      pos == Sorted(first)
  IN [n \in 1..Cardinality(first) |->
        LET k == seq[pos[n]][f]
        IN [key |-> k, value |-> seq[MaxOf({j \in 1..Len(seq) : seq[j][f] = k})]]]

DictKeys(d) == {d[n].key : n \in 1..Len(d)}

DictGet(d, k) == (CHOOSE e \in Range(d) : e.key = k).value

\* dict.values(), in insertion order
DictValues(d) == [n \in 1..Len(d) |-> d[n].value]

\* {**base, **over}
Merge(base, over) ==
  [k \in DOMAIN base \cup DOMAIN over |-> IF k \in DOMAIN over THEN over[k] ELSE base[k]]

\* ListExclusion._remote_map
ExclusionMap ==
  <<[l |-> "tmdb_id", r |-> "tmdbId"],
    [l |-> "title", r |-> "movieTitle"],
    [l |-> "year", r |-> "movieYear"]>>

\* DownloadClient._get_base_remote_map (the attributes carried here)
ClientMap ==
  <<[l |-> "enable", r |-> "enable", is_field |-> FALSE],
    [l |-> "tags", r |-> "tags", is_field |-> FALSE]>>

\* NewznabIndexer._remote_map (the attribute carried here)
NewznabMap ==
  <<[l |-> "categories", r |-> "categories", is_field |-> TRUE]>>

\* The _remote_map of a download client class: one field attribute.
TransmissionMap ==
  <<[l |-> "host", r |-> "host", is_field |-> TRUE]>>

\* self._remote_map: the class of the object decides.
ImplRemoteMap(impl) ==
  IF impl = "Newznab" THEN NewznabMap ELSE TransmissionMap

\* self._get_base_remote_map(tag_ids=tag_ids) + self._remote_map
RemoteMapOf(dc) == ClientMap \o ImplRemoteMap(dc.impl)

\* The tags encoder: sorted(tag_ids[tag] for tag in v)
TagsEncoder(tag_ids, v) == Sorted({tag_ids[t] : t \in v})

\* The tags decoder: set(tag for tag, tag_id in tag_ids.items() if tag_id in v)
TagsDecoder(tag_ids, v) == {t \in DOMAIN tag_ids : tag_ids[t] \in Range(v)}

\* get_create_remote_attrs for a list exclusion: every mapped attribute,
\* under its remote name (no encoder in the map).
ExclusionEncoded(le) ==
  [n \in {ExclusionMap[k].r : k \in 1..Len(ExclusionMap)} |->
     le[(CHOOSE e \in Range(ExclusionMap) : e.r = n).l]]

\* ListExclusion._from_remote: get_local_attrs over the map
ExclusionFromRemote(res) ==
  [n \in {ExclusionMap[k].l : k \in 1..Len(ExclusionMap)} |->
     res[(CHOOSE e \in Range(ExclusionMap) : e.l = n).r]]

\* The categories encoder: sorted(NabCategory.encode(c) for c in v)
CategoriesEncoder(v) == Sorted({NabCategoryEncode(c) : c \in v})

\* The local attributes of a download client or indexer under their remote
\* names, encoded (tags through the tag_ids table, categories through
\* NabCategory.encode).
ClientEncoded(tag_ids, dc) ==
  Merge([enable |-> dc.enable, tags |-> TagsEncoder(tag_ids, dc.tags)],
        IF dc.impl = "Newznab"
          THEN [categories |-> CategoriesEncoder(dc.categories)]
          ELSE [host |-> dc.host])

\* The value of the entry called `name` in a resource's field list.
FieldValue(fields, name) == (CHOOSE f \in Range(fields) : f.name = name).value

\* DownloadClient._from_remote: get_local_attrs over the map (a field
\* attribute is read from the entry of its name; the categories a
\* constructed NewznabIndexer holds went through validate_categories).
ClientFromRemote(tag_ids, res) ==
  Merge([impl |-> res.implementation,
         enable |-> res.enable,
         tags |-> TagsDecoder(tag_ids, res.tags)],
        IF res.implementation = "Newznab"
          THEN [categories |->
                  {NabCategoryDecode(n) : n \in Range(FieldValue(res.fields, "categories"))}]
          ELSE [host |-> FieldValue(res.fields, "host")])

\* get_update_remote_attrs(remote, remote_map, set_unchanged): the change
\* detector over one object.  `enc` holds the local values, encoded, under
\* their remote names.
GetUpdateRemoteAttrs(map, loc, rem, enc, set_unchanged) ==
  LET differs == {k \in 1..Len(map) : loc[map[k].l] # rem[map[k].l]}
      sent == IF set_unchanged THEN 1..Len(map) ELSE differs
  IN [updated |-> differs # {},
      attrs |-> [n \in {map[k].r : k \in sent} |-> enc[n]]]

(* ----------------------- the remote instance, cont. ------------------- *)

ServerCreate(coll, body) == coll \cup {Merge(body, [id |-> NewId(coll)])}

ServerUpdate(coll, id, body) == {r \in coll : r.id # id} \cup {Merge(body, [id |-> id])}

ServerDelete(coll, id) == {r \in coll : r.id # id}

\* from_remote: the configuration tree read from the instance.
FromRemote(srv) ==
  [tags |-> {t.label : t \in srv.tags},
   download_clients |->
     [n \in {r.name : r \in srv.download_clients} |->
        ClientFromRemote(TagIds(srv.tags), CHOOSE r \in srv.download_clients : r.name = n)],
   indexers |->
     [n \in {r.name : r \in srv.indexers} |->
        ClientFromRemote(TagIds(srv.tags), CHOOSE r \in srv.indexers : r.name = n)],
   exclusions |-> {ExclusionFromRemote(r) : r \in srv.exclusions}]

(* -------------- download clients and indexers sections ---------------- *)

\* str.lower(), over the implementation names that occur.
Lower(s) ==
  CASE s \in {"Newznab", "NEWZNAB", "newznab"} -> "newznab"
    [] s \in {"Transmission", "transmission"} -> "transmission"
    [] OTHER -> s

\* next() over an exhausted generator.
StopIteration == [type |-> "StopIteration", status |-> 0, call |-> 0, key |-> "none"]

\* The generator of _get_api_schema: the places of the schemas whose
\* implementation is this object's, letter case aside.
SchemaMatches(dc, schemas) ==
  {k \in 1..Len(schemas) : Lower(schemas[k].implementation) = Lower(dc.impl)}

\* DownloadClient._get_api_schema: the first such schema, without its id
\* and name (defined when there is one; next() raises otherwise).
GetApiSchema(dc, schemas) ==
  LET matches == SchemaMatches(dc, schemas)
      s == schemas[CHOOSE k \in matches : \A j \in matches : k <= j]
  IN [k \in DOMAIN s \ {"id", "name"} |-> s[k]]

\* What the attribute getters hand back for encoded values `enc` (keyed by
\* remote name): a plain attribute under its remote name, the field
\* attributes as {name, value} entries of "fields", in map order.
SetAttrs(map, enc) ==
  LET plain == {k \in 1..Len(map) : ~map[k].is_field /\ map[k].r \in DOMAIN enc}
      fs == SelectSeq(map, LAMBDA e : e.is_field /\ e.r \in DOMAIN enc)
      base == [n \in {map[k].r : k \in plain} |-> enc[n]]
  IN IF fs = <<>>
       THEN base
       ELSE Merge(base, [fields |-> [k \in 1..Len(fs) |->
                                       [name |-> fs[k].r, value |-> enc[fs[k].r]]]])

MergeFieldsTemplate(template, fields) == template

MergeFieldsBare(template, fields) ==
  LET field_values == DictBy(fields, "name")
  IN [k \in 1..Len(template) |->
        IF template[k].name \in DictKeys(field_values)
          THEN [name |-> template[k].name,
                value |-> DictGet(field_values, template[k].name).value,
                label |-> "none"]
          ELSE template[k]]

\* The computed field values merged into a field list:
\* [({**f, "value": field_values[f["name"]]} if f["name"] in field_values else f)
\*  for f in template]
MergeFields(template, fields) ==
  LET field_values == DictBy(fields, "name")
  IN [k \in 1..Len(template) |->
        IF template[k].name \in DictKeys(field_values)
          THEN Merge(template[k],
                     [value |-> DictGet(field_values, template[k].name).value])
          ELSE template[k]]

\* DownloadClient._create_remote: the resource sent to create.
ClientCreateAttrs(api_schema, tag_ids, dc, name) ==
  LET set_attrs == SetAttrs(RemoteMapOf(dc), ClientEncoded(tag_ids, dc))
      merged == [set_attrs EXCEPT !.fields = MergeFields(api_schema.fields, @)]
  IN Merge(Merge([name |-> name], api_schema), merged)

ClientUpdateAttrsOnly(tag_ids, dc, rem, api_res) ==
  LET d == GetUpdateRemoteAttrs(RemoteMapOf(dc), dc, rem, ClientEncoded(tag_ids, dc), TRUE)
      updated_attrs == SetAttrs(RemoteMapOf(dc), d.attrs)
      merged == IF "fields" \in DOMAIN updated_attrs
                  THEN [updated_attrs EXCEPT !.fields = MergeFields(api_res.fields, @)]
                  ELSE updated_attrs
  IN [updated |-> d.updated, id |-> api_res.id, body |-> merged]

\* DownloadClient._update_remote: the change detector with
\* set_unchanged=True, and the resource sent when it reports a change.
ClientUpdate(tag_ids, dc, rem, api_res) ==
  LET d == GetUpdateRemoteAttrs(RemoteMapOf(dc), dc, rem, ClientEncoded(tag_ids, dc), TRUE)
      updated_attrs == SetAttrs(RemoteMapOf(dc), d.attrs)
      merged == IF "fields" \in DOMAIN updated_attrs
                  THEN [updated_attrs EXCEPT !.fields = MergeFields(api_res.fields, @)]
                  ELSE updated_attrs
  IN [updated |-> d.updated, id |-> api_res.id, body |-> Merge(api_res, merged)]

\* The section's update pass up to its loop: the label -> id table and the
\* collection are read from the instance.
ClientsList ==
  /\ Running
  /\ frame.sec \in ClientSections /\ frame.pc = "start" /\ mode = "update"
  /\ \/ /\ calls' = calls \o <<Call(frame.sec, "tag", "list", 0, server.tags, TRUE, 0),
                               Call(frame.sec, frame.sec, "list", 0, server[frame.sec], TRUE, 0)>>
        /\ \E order \in Perms(DOMAIN local[frame.sec].definitions) :
             frame' = [frame EXCEPT !.pc = "loop", !.todo = order,
                                    !.tag_ids = TagIds(server.tags),
                                    !.current = server[frame.sec]]
        /\ UNCHANGED <<results, trace, outcome>>
     \/ \E st \in FailStatuses :
          /\ calls' = Append(calls, Call(frame.sec, "tag", "list", 0, <<>>, FALSE, st))
          /\ Propagate(ApiError(st, Len(calls) + 1))
  /\ UNCHANGED <<entry, mode, local, remote, server, server0>>

\* One local definition: created (DownloadClient._create_remote) when its
\* name is not on the instance, compared and updated
\* (DownloadClient._update_remote) otherwise.
ClientsStep ==
  /\ Running
  /\ frame.sec \in ClientSections /\ frame.pc = "loop" /\ frame.todo # <<>>
  /\ mode = "update"
  /\ LET sec == frame.sec
         name == Head(frame.todo)
         dc == local[sec].definitions[name]
         rest == [frame EXCEPT !.todo = Tail(@), !.i = @ + 1]
         unresolved == {t \in dc.tags : t \notin DOMAIN frame.tag_ids}
     IN IF ~\E r \in frame.current : r.name = name
          THEN IF SchemaMatches(dc, server.schemas) = {}
                 THEN \* next(...) in _get_api_schema
                      /\ Propagate(StopIteration)
                      /\ UNCHANGED <<server, calls>>
                 ELSE IF unresolved # {}
                   THEN \* tag_ids[tag] in the encoder
                        /\ \E t \in unresolved : Propagate(KeyError(t))
                        /\ UNCHANGED <<server, calls>>
                   ELSE LET body == ClientCreateAttrs(GetApiSchema(dc, server.schemas),
                                                      frame.tag_ids, dc, name)
                        IN \/ /\ calls' = Append(calls, Call(sec, sec, "create", 0, body, TRUE, 0))
                              /\ server' = [server EXCEPT ![sec] = ServerCreate(@, body)]
                              /\ frame' = [rest EXCEPT !.changed = TRUE]
                              /\ UNCHANGED <<results, trace, outcome>>
                           \/ \E st \in FailStatuses :
                                /\ calls' = Append(calls,
                                      Call(sec, sec, "create", 0, body, FALSE, st))
                                /\ Propagate(ApiError(st, Len(calls) + 1))
                                /\ UNCHANGED server
          ELSE IF unresolved # {}
            THEN \* tag_ids[tag] in the encoder
                 /\ \E t \in unresolved : Propagate(KeyError(t))
                 /\ UNCHANGED <<server, calls>>
            ELSE LET api_res == CHOOSE r \in frame.current : r.name = name
                     u == ClientUpdate(frame.tag_ids, dc,
                                       ClientFromRemote(frame.tag_ids, api_res), api_res)
                 IN IF u.updated
                      THEN \/ /\ calls' = Append(calls,
                                    Call(sec, sec, "update", u.id, u.body, TRUE, 0))
                              /\ server' = [server EXCEPT ![sec] = ServerUpdate(@, u.id, u.body)]
                              /\ frame' = [rest EXCEPT !.changed = TRUE]
                              /\ UNCHANGED <<results, trace, outcome>>
                           \/ \E st \in FailStatuses :
                                /\ calls' = Append(calls,
                                      Call(sec, sec, "update", u.id, u.body, FALSE, st))
                                /\ Propagate(ApiError(st, Len(calls) + 1))
                                /\ UNCHANGED server
                      ELSE /\ frame' = rest
                           /\ UNCHANGED <<server, calls, results, trace, outcome>>
  /\ UNCHANGED <<entry, mode, local, remote, server0>>

\* The section's delete pass up to its loop.
ClientsDeleteList ==
  /\ Running
  /\ frame.sec \in ClientSections /\ frame.pc = "start" /\ mode = "delete"
  /\ \/ /\ calls' = Append(calls, Call(frame.sec, frame.sec, "list", 0, server[frame.sec], TRUE, 0))
        /\ \E order \in Perms(server[frame.sec]) :
             frame' = [frame EXCEPT !.pc = "loop", !.todo = order]
        /\ UNCHANGED <<results, trace, outcome>>
     \/ \E st \in FailStatuses :
          /\ calls' = Append(calls, Call(frame.sec, frame.sec, "list", 0, <<>>, FALSE, st))
          /\ Propagate(ApiError(st, Len(calls) + 1))
  /\ UNCHANGED <<entry, mode, local, remote, server, server0>>

\* One remote resource: deleted when no local definition has its name and
\* the section's delete_unmanaged is set.
ClientsDeleteStep ==
  /\ Running
  /\ frame.sec \in ClientSections /\ frame.pc = "loop" /\ frame.todo # <<>>
  /\ mode = "delete"
  /\ LET sec == frame.sec
         res == Head(frame.todo)
         rest == [frame EXCEPT !.todo = Tail(@), !.i = @ + 1]
     IN IF res.name \notin DOMAIN local[sec].definitions /\ local[sec].delete_unmanaged
          THEN \/ /\ calls' = Append(calls, Call(sec, sec, "delete", res.id, <<>>, TRUE, 0))
                  /\ server' = [server EXCEPT ![sec] = ServerDelete(@, res.id)]
                  /\ frame' = [rest EXCEPT !.changed = TRUE]
                  /\ UNCHANGED <<results, trace, outcome>>
               \/ \E st \in FailStatuses :
                    /\ calls' = Append(calls, Call(sec, sec, "delete", res.id, <<>>, FALSE, st))
                    /\ Propagate(ApiError(st, Len(calls) + 1))
                    /\ UNCHANGED server
          ELSE /\ frame' = rest
               /\ UNCHANGED <<server, calls, results, trace, outcome>>
  /\ UNCHANGED <<entry, mode, local, remote, server0>>

ClientsReturn ==
  /\ Running
  /\ frame.sec \in ClientSections /\ frame.pc = "loop" /\ frame.todo = <<>>
  /\ Return(frame.changed)
  /\ UNCHANGED <<entry, mode, local, remote, server, server0, calls>>

(* ------------------------ list exclusions section --------------------- *)

\* list_exclusions(): the instance's resources, in id order.
ServerList(coll) ==
  LET ids == Sorted({r.id : r \in coll})
  IN [n \in 1..Cardinality(coll) |-> CHOOSE r \in coll : r.id = ids[n]]

ExclusionUpdateLastId(le, rem, api_res) ==
  LET d == GetUpdateRemoteAttrs(ExclusionMap, le, rem, ExclusionEncoded(le), TRUE)
      last == MaxOf({e.value.id : e \in Range(frame.current)})
  IN [updated |-> d.updated, id |-> last, body |-> Merge(api_res, d.attrs)]

ExclusionUpdateNever(le, rem, api_res) ==
  LET d == GetUpdateRemoteAttrs(ExclusionMap, le, rem, ExclusionEncoded(le), TRUE)
  IN [updated |-> FALSE, id |-> api_res.id, body |-> Merge(api_res, d.attrs)]

ExclusionUpdateUnconditional(le, rem, api_res) ==
  LET d == GetUpdateRemoteAttrs(ExclusionMap, le, rem, ExclusionEncoded(le), TRUE)
  IN [updated |-> TRUE, id |-> api_res.id, body |-> Merge(api_res, d.attrs)]

\* ListExclusion._update_remote: the change detector with
\* set_unchanged=True, and the resource sent when it reports a change.
ExclusionUpdate(le, rem, api_res) ==
  LET d == GetUpdateRemoteAttrs(ExclusionMap, le, rem, ExclusionEncoded(le), TRUE)
  IN [updated |-> d.updated, id |-> api_res.id, body |-> Merge(api_res, d.attrs)]

ExclusionIsNewInListing(le, remote_listexclusions) ==
  le.tmdb_id \notin DictKeys(frame.current)

\* `if listexclusion.tmdb_id not in remote_listexclusions`
ExclusionIsNew(le, remote_listexclusions) ==
  le.tmdb_id \notin DictKeys(remote_listexclusions)

DeleteUnmanagedAlways(settings) == TRUE

\* `if self.delete_unmanaged`
DeleteUnmanaged(settings) == settings.delete_unmanaged

\* ListExclusionsSettings.update_remote up to the loop: the fresh listing
\* keyed by tmdb_id, and the two tables built from self.definitions and
\* remote.definitions (sets: any iteration order).
ExclusionsUpdateList ==
  /\ Running
  /\ frame.sec = "exclusions" /\ frame.pc = "start" /\ mode = "update"
  /\ \/ /\ calls' = Append(calls, Call("exclusions", "exclusion", "list", 0,
                                     ServerList(server.exclusions), TRUE, 0))
        /\ \E lo \in Perms(local.exclusions.definitions), ro \in Perms(remote.exclusions) :
             LET local_listexclusions == DictBy(lo, "tmdb_id") IN
             frame' = [frame EXCEPT
                   !.pc = "loop",
                   !.current = DictBy(ServerList(server.exclusions), "tmdbId"),
                   !.mine = local_listexclusions,
                   !.order = lo,
                   !.known = DictBy(ro, "tmdb_id"),
                   !.todo = DictValues(local_listexclusions)]
        /\ UNCHANGED <<results, trace, outcome>>
     \/ \E st \in FailStatuses :
          /\ calls' = Append(calls, Call("exclusions", "exclusion", "list", 0, <<>>, FALSE, st))
          /\ Propagate(ApiError(st, Len(calls) + 1))
  /\ UNCHANGED <<entry, mode, local, remote, server, server0>>

\* ListExclusionsSettings.delete_remote up to the loop: the same three
\* tables, and i = -1.
ExclusionsDeleteList ==
  /\ Running
  /\ frame.sec = "exclusions" /\ frame.pc = "start" /\ mode = "delete"
  /\ \/ /\ calls' = Append(calls, Call("exclusions", "exclusion", "list", 0,
                                     ServerList(server.exclusions), TRUE, 0))
        /\ \E lo \in Perms(local.exclusions.definitions), ro \in Perms(remote.exclusions) :
             LET remote_listexclusions == DictBy(ro, "tmdb_id") IN
             frame' = [frame EXCEPT
                   !.pc = "loop",
                   !.current = DictBy(ServerList(server.exclusions), "tmdbId"),
                   !.mine = DictBy(lo, "tmdb_id"),
                   !.order = lo,
                   !.known = remote_listexclusions,
                   !.i = -1,
                   !.todo = DictValues(remote_listexclusions)]
        /\ UNCHANGED <<results, trace, outcome>>
     \/ \E st \in FailStatuses :
          /\ calls' = Append(calls, Call("exclusions", "exclusion", "list", 0, <<>>, FALSE, st))
          /\ Propagate(ApiError(st, Len(calls) + 1))
  /\ UNCHANGED <<entry, mode, local, remote, server, server0>>

\* One iteration of update_remote's loop over local_listexclusions.values().
ExclusionsStep ==
  /\ Running
  /\ frame.sec = "exclusions" /\ frame.pc = "loop" /\ frame.todo # <<>>
  /\ mode = "update"
  /\ LET le == Head(frame.todo)
         rest == [frame EXCEPT !.todo = Tail(@), !.i = @ + 1]
     IN IF ExclusionIsNew(le, frame.known)
          THEN \* _create_remote
               LET body == ExclusionEncoded(le) IN
               \/ /\ calls' = Append(calls,
                       Call("exclusions", "exclusion", "create", 0, body, TRUE, 0))
                  /\ server' = [server EXCEPT !.exclusions = ServerCreate(@, body)]
                  /\ frame' = [rest EXCEPT !.changed = TRUE]
                  /\ UNCHANGED <<results, trace, outcome>>
               \/ \E st \in FailStatuses :
                    /\ calls' = Append(calls,
                          Call("exclusions", "exclusion", "create", 0, body, FALSE, st))
                    /\ Propagate(ApiError(st, Len(calls) + 1))
                    /\ UNCHANGED server
          ELSE IF le.tmdb_id \notin DictKeys(frame.current) \/ le.tmdb_id \notin DictKeys(frame.known)
            THEN \* remote_listexclusions[...] / api_listexclusions[...], evaluated for the call
                 /\ Propagate(KeyError(ToString(le.tmdb_id)))
                 /\ UNCHANGED <<server, calls>>
            ELSE \* _update_remote
                 LET u == ExclusionUpdate(le, DictGet(frame.known, le.tmdb_id),
                                              DictGet(frame.current, le.tmdb_id))
                 IN IF u.updated
                      THEN \/ /\ calls' = Append(calls,
                                    Call("exclusions", "exclusion", "update", u.id, u.body, TRUE, 0))
                              /\ server' = [server EXCEPT
                                              !.exclusions = ServerUpdate(@, u.id, u.body)]
                              /\ frame' = [rest EXCEPT !.changed = TRUE]
                              /\ UNCHANGED <<results, trace, outcome>>
                           \/ \E st \in FailStatuses :
                                /\ calls' = Append(calls,
                                      Call("exclusions", "exclusion", "update", u.id, u.body, FALSE, st))
                                /\ Propagate(ApiError(st, Len(calls) + 1))
                                /\ UNCHANGED server
                      ELSE /\ frame' = rest
                           /\ UNCHANGED <<server, calls, results, trace, outcome>>
  /\ UNCHANGED <<entry, mode, local, remote, server0>>

\* One iteration of delete_remote's loop over remote_listexclusions.values().
ExclusionsDeleteStep ==
  /\ Running
  /\ frame.sec = "exclusions" /\ frame.pc = "loop" /\ frame.todo # <<>>
  /\ mode = "delete"
  /\ LET le == Head(frame.todo)
         \* `i -= -1` at the end of an unmanaged entry's iteration
         rest == [frame EXCEPT !.todo = Tail(@), !.i = @ - (-1)]
     IN IF le.tmdb_id \notin DictKeys(frame.mine)
          THEN IF DeleteUnmanaged(local.exclusions)
                 THEN IF le.tmdb_id \notin DictKeys(frame.current)
                        THEN \* api_listexclusions[listexclusion.tmdb_id]
                             /\ Propagate(KeyError(ToString(le.tmdb_id)))
                             /\ UNCHANGED <<server, calls>>
                        ELSE LET id == DictGet(frame.current, le.tmdb_id).id IN
                             \/ /\ calls' = Append(calls,
                                     Call("exclusions", "exclusion", "delete", id, <<>>, TRUE, 0))
                                /\ server' = [server EXCEPT !.exclusions = ServerDelete(@, id)]
                                /\ frame' = [rest EXCEPT !.changed = TRUE]
                                /\ UNCHANGED <<results, trace, outcome>>
                             \/ \E st \in FailStatuses :
                                  /\ calls' = Append(calls,
                                        Call("exclusions", "exclusion", "delete", id, <<>>, FALSE, st))
                                  /\ Propagate(ApiError(st, Len(calls) + 1))
                                  /\ UNCHANGED server
                 ELSE /\ frame' = rest
                      /\ UNCHANGED <<server, calls, results, trace, outcome>>
          ELSE /\ frame' = [frame EXCEPT !.todo = Tail(@)]
               /\ UNCHANGED <<server, calls, results, trace, outcome>>
  /\ UNCHANGED <<entry, mode, local, remote, server0>>

\* `return changed`
ExclusionsReturn ==
  /\ Running
  /\ frame.sec = "exclusions" /\ frame.pc = "loop" /\ frame.todo = <<>>
  /\ Return(frame.changed)
  /\ UNCHANGED <<entry, mode, local, remote, server, server0, calls>>

(* ------------------------------ initial states ------------------------ *)

\* Tag collections of the instance: unique labels, ids 1..n.
TagSets ==
  {ts \in SUBSET [id : 1..Cardinality(Labels), label : Labels] :
     /\ \A a, b \in ts : (a.label = b.label \/ a.id = b.id) => a = b
     /\ {t.id : t \in ts} = 1..Cardinality(ts)}

\* Local download-client / indexer sections.
ClientSettings(flags, choices) ==
  [delete_unmanaged : flags,
   definitions : UNION {[N -> choices] : N \in SUBSET ClientNames}]

\* Hosts a download client may declare.
Hosts == {"localhost", "nas"}

\* The field list of an implementation's schema: the entry of the attribute
\* the map carries, at its default, and an entry the map does not know.
SchemaFields(implementation) ==
  IF Lower(implementation) = "newznab"
    THEN <<[name |-> "categories", value |-> <<5030, 5040>>, label |-> "Categories"],
           [name |-> "multiLanguages", value |-> <<>>, label |-> "Multi Languages"]>>
    ELSE <<[name |-> "urlBase", value |-> "", label |-> "Url Base"],
           [name |-> "host", value |-> "localhost", label |-> "Host"]>>

\* The schema of an implementation, as the instance's catalog lists it.
Schema(implementation) ==
  [id |-> 0, name |-> "", implementation |-> implementation, enable |-> TRUE,
   tags |-> <<>>, fields |-> SchemaFields(implementation)]

\* The catalog of an instance that knows both implementations.
SchemaCatalog == <<Schema("Transmission"), Schema("Newznab")>>

\* Catalogs: the full one, one spelling an implementation in lower case,
\* and one without the download client's implementation.
Catalogs ==
  {SchemaCatalog, <<Schema("Newznab"), Schema("transmission")>>, <<Schema("Newznab")>>}

\* A download client as declared.
Transmission(enable, tags, host) ==
  [impl |-> "Transmission", enable |-> enable, tags |-> tags, host |-> host]

\* A Newznab indexer as declared.
Newznab(enable, tags, categories) ==
  [impl |-> "Newznab", enable |-> enable, tags |-> tags, categories |-> categories]

\* The field list of a Newznab resource monitoring TV/HD.
NewznabFields ==
  <<[name |-> "categories", value |-> <<5040>>, label |-> "Categories"],
    [name |-> "multiLanguages", value |-> <<>>, label |-> "Multi Languages"]>>

\* Download-client / indexer collections of the instance.
ClientResources(implementation, enables, tagss, fieldss) ==
  {rs \in SUBSET [id : {1}, name : ClientNames, implementation : {implementation},
                  enable : enables, tags : tagss, fields : fieldss] :
     \A a, b \in rs : a.name = b.name => a = b}

ListExclusions == [tmdb_id : 1..MaxTmdbId, title : Titles, year : Years]

\* List-exclusion collections of the instance: one resource per tmdb_id at
\* most, each under its own id.
ExclusionResources ==
  {rs \in SUBSET {Merge(ExclusionEncoded(le), [id |-> 10 + le.tmdb_id]) : le \in ListExclusions} :
     \A a, b \in rs : a.tmdbId = b.tmdbId => a = b}

NoClients == [delete_unmanaged |-> FALSE, definitions |-> <<>>]

NoExclusions == [delete_unmanaged |-> FALSE, definitions |-> {}]

\* The run begins: nothing called yet, `remote` read from the instance.
InitRun ==
  /\ server0 = server
  /\ remote = FromRemote(server)
  /\ calls = <<>>
  /\ trace = <<>>
  /\ results = <<>>
  /\ frame = NoFrame
  /\ outcome = [status |-> "running", value |-> FALSE, err |-> KeyError("none")]

\* SonarrSettings.update_remote over a settings tree.  The update pass reads
\* no delete_unmanaged flag: each is left at its default.
InitUpdate ==
  /\ entry = "settings"
  /\ mode = "update"
  /\ \E tags \in SUBSET Labels,
        dcs \in ClientSettings({FALSE}, {Transmission(TRUE, {}, "localhost"),
                                         Transmission(TRUE, {"anime"}, "localhost")}),
        ixs \in ClientSettings({FALSE}, {Newznab(TRUE, {}, {NabMember("TV_HD")}),
                                         Newznab(TRUE, {"anime"}, {NabMember("TV_HD")})}) :
       local = [tags |-> tags, download_clients |-> dcs, indexers |-> ixs,
                exclusions |-> NoExclusions]
  /\ \E ts \in TagSets,
        dcr \in ClientResources("Transmission", {TRUE}, {<<>>}, {SchemaFields("Transmission")}),
        ixr \in ClientResources("Newznab", {TRUE}, {<<>>}, {NewznabFields}) :
       server = [tags |-> ts, download_clients |-> dcr, indexers |-> ixr, exclusions |-> {},
                 schemas |-> SchemaCatalog]
  /\ InitRun

\* SonarrSettings.delete_remote over a settings tree.  The delete pass reads
\* the names of the local definitions and the delete_unmanaged flags only.
InitDelete ==
  /\ entry = "settings"
  /\ mode = "delete"
  /\ \E tags \in {{}, {"anime"}},
        dcs \in ClientSettings(BOOLEAN, {Transmission(TRUE, {}, "localhost")}),
        ixs \in ClientSettings(BOOLEAN, {Newznab(TRUE, {}, {NabMember("TV_HD")})}) :
       local = [tags |-> tags, download_clients |-> dcs, indexers |-> ixs,
                exclusions |-> NoExclusions]
  /\ \E ts \in {t \in TagSets : Cardinality(t) <= 1},
        dcr \in ClientResources("Transmission", {TRUE}, {<<>>}, {SchemaFields("Transmission")}),
        ixr \in ClientResources("Newznab", {TRUE}, {<<>>}, {NewznabFields}) :
       server = [tags |-> ts, download_clients |-> dcr, indexers |-> ixr, exclusions |-> {},
                 schemas |-> SchemaCatalog]
  /\ InitRun

Init == InitUpdate \/ InitDelete

\* One collection's update_remote / delete_remote called on its own.
InitColl ==
  /\ entry \in {"tags", "exclusions", "download_clients"}
  /\ mode \in {"update", "delete"}
  /\ \/ /\ entry = "tags"
        /\ \E tags \in SUBSET Labels :
             local = [tags |-> tags, download_clients |-> NoClients, indexers |-> NoClients,
                      exclusions |-> NoExclusions]
        /\ \E ts \in TagSets :
             server = [tags |-> ts, download_clients |-> {}, indexers |-> {}, exclusions |-> {},
                       schemas |-> SchemaCatalog]
     \/ /\ entry = "exclusions"
        /\ \E du \in BOOLEAN, defs \in SUBSET ListExclusions :
             /\ Cardinality(defs) <= MaxDefs
             /\ local = [tags |-> {}, download_clients |-> NoClients, indexers |-> NoClients,
                         exclusions |-> [delete_unmanaged |-> du, definitions |-> defs]]
        /\ \E rs \in ExclusionResources :
             server = [tags |-> {}, download_clients |-> {}, indexers |-> {}, exclusions |-> rs,
                       schemas |-> SchemaCatalog]
     \/ /\ entry = "download_clients"
        /\ \E dcs \in ClientSettings(BOOLEAN,
                      {Transmission(e, t, h) : e \in BOOLEAN, t \in SUBSET Labels, h \in Hosts}) :
             local = [tags |-> {}, download_clients |-> dcs, indexers |-> NoClients,
                      exclusions |-> NoExclusions]
        /\ \E ts \in TagSets, schemas \in Catalogs,
              dcr \in ClientResources("Transmission", BOOLEAN, {<<>>, <<1>>},
                                      {SchemaFields("Transmission")}) :
             server = [tags |-> ts, download_clients |-> dcr, indexers |-> {}, exclusions |-> {},
                       schemas |-> schemas]
  /\ InitRun

(* ------------------------------ specifications ------------------------ *)

TagsNext == TagsList \/ TagsStep \/ TagsReturn \/ TagsDelete

ClientsNext ==
  ClientsList \/ ClientsStep \/ ClientsDeleteList \/ ClientsDeleteStep \/ ClientsReturn

ExclusionsNext ==
  \/ ExclusionsUpdateList
  \/ ExclusionsStep
  \/ ExclusionsDeleteList
  \/ ExclusionsDeleteStep
  \/ ExclusionsReturn

Next ==
  \/ SectionCall
  \/ Finish
  \/ OpaqueReturn
  \/ OpaqueRaise
  \/ TagsNext
  \/ ClientsNext

\* A run of the settings orchestrator.
Spec == Init /\ [][Next]_vars

NextColl ==
  \/ SectionCall
  \/ Finish
  \/ TagsNext
  \/ ClientsNext
  \/ ExclusionsNext

\* A run of one collection's update_remote / delete_remote.
SpecColl == InitColl /\ [][NextColl]_vars

\* The union: a run of the orchestrator or of one collection.
InitAll == Init \/ InitColl

NextAll == Next \/ ExclusionsNext

SpecAll == InitAll /\ [][NextAll]_vars

(* ------------------------------ reading the log ----------------------- *)

Returned == outcome.status = "returned"

Raised == outcome.status = "raised"

\* The place of a section in an order (0: not in it).
PosIn(order, sec) ==
  IF \E n \in 1..Len(order) : order[n] = sec
    THEN CHOOSE n \in 1..Len(order) : order[n] = sec
    ELSE 0

\* The trace is a prefix of call(o1) return(o1) call(o2) return(o2) ...
FollowsOrder(order) ==
  /\ Len(trace) <= 2 * Len(order)
  /\ \A n \in 1..Len(trace) :
       /\ trace[n].sec = order[(n + 1) \div 2]
       /\ trace[n].ev = (IF n % 2 = 1 THEN "call" ELSE "return")

\* Remote calls come in the order of the sections that issue them.
CallsFollowOrder(order) ==
  \A i, j \in 1..Len(calls) : i < j => PosIn(order, calls[i].sec) <= PosIn(order, calls[j].sec)

\* The instance after the successful calls of a log, applied in order.
RECURSIVE Replay(_, _)
Replay(srv, log) ==
  IF log = <<>>
    THEN srv
    ELSE LET c == Head(log)
             next ==
               IF ~c.ok \/ c.op = "list" \/ c.api = "other" THEN srv
               ELSE IF c.api = "tag" THEN ServerCreateTag(srv, c.body.label)
               ELSE LET coll == IF c.api = "exclusion" THEN "exclusions" ELSE c.api
                    IN [srv EXCEPT ![coll] =
                          IF c.op = "create" THEN ServerCreate(@, c.body)
                          ELSE IF c.op = "update" THEN ServerUpdate(@, c.id, c.body)
                          ELSE ServerDelete(@, c.id)]
         IN Replay(next, Tail(log))

(* ----------------------- a concurrent external actor ------------------ *)

\* Someone else changes the instance, once, at any moment of the run (also
\* between the read that produced `remote` and the call): a tag or a list
\* exclusion appears, or a list exclusion goes away.
ExternalChange ==
  /\ Running
  /\ entry \in {"tags", "exclusions"}
  /\ server = Replay(server0, calls)
  /\ \/ \E l \in Labels :
          /\ entry = "tags"
          /\ l \notin {t.label : t \in server.tags}
          /\ server' = ServerCreateTag(server, l)
     \/ \E le \in ListExclusions :
          /\ entry = "exclusions"
          /\ le.tmdb_id \notin {r.tmdbId : r \in server.exclusions}
          /\ server' = [server EXCEPT !.exclusions = ServerCreate(@, ExclusionEncoded(le))]
     \/ \E r \in server.exclusions :
          server' = [server EXCEPT !.exclusions = ServerDelete(@, r.id)]
  /\ UNCHANGED <<entry, mode, local, remote, server0, calls, trace, results, frame, outcome>>

NextRace == NextColl \/ ExternalChange

\* A run of one collection's update_remote / delete_remote while the
\* instance may change under it.
SpecRace == InitColl /\ [][NextRace]_vars

(* ------------------- encoders and decoders, applied ------------------- *)

\* An encoder or decoder is applied to a value: "tags" (a set of labels
\* through a tag_ids table), "category" (a validated category, encoded and
\* decoded back) or "number" (a remote number, decoded and encoded back).
InitCodec ==
  /\ entry = "codec"
  /\ mode \in {"tags", "category", "number"}
  /\ \/ /\ mode = "tags"
        /\ \E tag_ids \in TagIdTables, v \in SUBSET Labels :
             local = [tag_ids |-> tag_ids, v |-> v]
     \/ /\ mode = "category"
        /\ \E c \in CategoryInputs : local = [tag_ids |-> <<>>, v |-> ValidateCategory(c)]
     \/ /\ mode = "number"
        /\ \E n \in CategoryNumbers : local = [tag_ids |-> <<>>, v |-> n]
  /\ remote = <<>>
  /\ server = <<>>
  /\ server0 = <<>>
  /\ calls = <<>>
  /\ trace = <<>>
  /\ results = <<>>
  /\ frame = [NoFrame EXCEPT !.sec = "codec", !.pc = "start"]
  /\ outcome = [status |-> "running", value |-> FALSE, err |-> KeyError("none")]

\* The first conversion: the encoder (tags, category) or the decoder (number).
CodecFirst ==
  /\ Running
  /\ entry = "codec" /\ frame.pc = "start"
  /\ IF mode = "tags" /\ ~(local.v \subseteq DOMAIN local.tag_ids)
       THEN \* tag_ids[tag]
            /\ \E t \in local.v \ DOMAIN local.tag_ids :
                 outcome' = [status |-> "raised", value |-> FALSE, err |-> KeyError(t)]
            /\ frame' = NoFrame
       ELSE /\ frame' = [frame EXCEPT
                  !.pc = "back",
                  !.current = CASE mode = "tags" -> TagsEncoder(local.tag_ids, local.v)
                                [] mode = "category" -> NabCategoryEncode(local.v)
                                [] OTHER -> NabCategoryDecode(local.v)]
            /\ UNCHANGED outcome
  /\ UNCHANGED <<entry, mode, local, remote, server, server0, calls, trace, results>>

\* The conversion back; its result is the outcome.
CodecBack ==
  /\ Running
  /\ entry = "codec" /\ frame.pc = "back"
  /\ outcome' = [status |-> "returned",
                 value |-> CASE mode = "tags" -> TagsDecoder(local.tag_ids, frame.current)
                             [] mode = "category" -> NabCategoryDecode(frame.current)
                             [] OTHER -> NabCategoryEncode(frame.current),
                 err |-> KeyError("none")]
  /\ frame' = NoFrame
  /\ UNCHANGED <<entry, mode, local, remote, server, server0, calls, trace, results>>

NextCodec == CodecFirst \/ CodecBack

\* Encoders and decoders applied to bounded inputs.
SpecCodec == InitCodec /\ [][NextCodec]_vars

(* ---------------------- SonarrSecrets.get_from_url -------------------- *)

\* HTTPStatus.UNAUTHORIZED
UNAUTHORIZED == 401

\* The url_base arguments: None, and strings with and without slashes.
UrlBases == {"None", "", "/", "sonarr", "/sonarr/"}

\* The api_key arguments: None, the empty string, and two keys.
ApiKeys == {"None", "", "k1", "k2"}

\* Answers of the instance to the request for /initialize.json.
InitializeStatuses == {200, UNAUTHORIZED, 500}

\* Answers of the instance to a system-status request that carries its key.
SystemStatuses == {200, 500}

\* value.strip("/"), over the url_base arguments.
Strip(value) == IF value \in {"sonarr", "/sonarr/"} THEN "sonarr" ELSE ""

\* SonarrSecrets.validate_url_base:
\* f"/{value.strip('/')}" if value and value.strip("/") else None
ValidateUrlBase(value) ==
  IF value \notin {"None", ""} /\ Strip(value) # "" THEN "/sonarr" ELSE "None"

\* SonarrSecrets._get_host_url: f"{protocol}://{hostname}:{port}{url_base or ''}"
GetHostUrl(url_base) ==
  IF url_base \in {"None", ""} THEN "http://sonarr:8989" ELSE "http://sonarr:8989/sonarr"

NoApiKeyAlways(api_key) == TRUE

\* `not api_key`
NoApiKey(api_key) == api_key \in {"None", ""}

\* SonarrSecretsUnauthorizedError, with the message it carries.
SonarrSecretsUnauthorizedError(msg) ==
  [type |-> "SonarrSecretsUnauthorizedError", status |-> 0, call |-> 0, key |-> msg]

\* What the generated client raises for a failed system-status request:
\* UnauthorizedException for 401, another ApiException otherwise.
ApiException(status, n) ==
  [type |-> IF status = 401 THEN "UnauthorizedException" ELSE "ApiException",
   status |-> status, call |-> n, key |-> "none"]

KeyRetrievalErrorTranslated(err) ==
  SonarrSecretsUnauthorizedError("Unable to retrieve the API key")

\* `except SonarrAPIError as err:` around the request for /initialize.json.
KeyRetrievalError(err) ==
  IF err.status = UNAUTHORIZED
    THEN SonarrSecretsUnauthorizedError("Unable to retrieve the API key")
    ELSE err

SystemStatusErrorUntranslated(err) == err

\* `except UnauthorizedException:` around the system-status request; any
\* other exception passes.
SystemStatusError(err) ==
  IF err.type = "UnauthorizedException"
    THEN SonarrSecretsUnauthorizedError("Incorrect API key")
    ELSE err

\* SonarrSecrets.get_from_url is called with a url_base and an api_key; the
\* instance has its key, the key /initialize.json hands out, and its answers.
InitSecrets ==
  /\ entry = "get_from_url"
  /\ mode = "secrets"
  /\ \E url_base \in UrlBases, api_key \in ApiKeys :
       local = [url_base |-> url_base, api_key |-> api_key]
  /\ \E initialize \in InitializeStatuses, status \in SystemStatuses, handed \in {"k1", "k2"} :
       server = [api_key |-> "k1", initialize |-> initialize, handed |-> handed,
                 status |-> status, version |-> "4.0.0"]
  /\ server0 = server
  /\ remote = <<>>
  /\ calls = <<>>
  /\ trace = <<>>
  /\ results = <<>>
  /\ frame = [NoFrame EXCEPT !.sec = "secrets", !.pc = "start"]
  /\ outcome = [status |-> "running", value |-> FALSE, err |-> KeyError("none")]

\* get_from_url up to the system-status request, when no key was supplied:
\* the key is read from /initialize.json.
GetFromUrlKey ==
  /\ Running
  /\ entry = "get_from_url" /\ frame.pc = "start"
  /\ NoApiKey(local.api_key)
  /\ LET host_url == GetHostUrl(ValidateUrlBase(local.url_base))
         ok == server.initialize = 200
     IN /\ calls' = Append(calls, Call("secrets", "initialize", "get", 0,
                                       [host_url |-> host_url, api_key |-> "None"],
                                       ok, IF ok THEN 0 ELSE server.initialize))
        /\ IF ok
             THEN /\ frame' = [frame EXCEPT !.pc = "status", !.current = server.handed]
                  /\ UNCHANGED outcome
             ELSE /\ outcome' = [status |-> "raised", value |-> FALSE,
                                 err |-> KeyRetrievalError(
                                           ApiError(server.initialize, Len(calls) + 1))]
                  /\ frame' = NoFrame
  /\ UNCHANGED <<entry, mode, local, remote, server, server0, trace, results>>

\* get_from_url from the system-status request on, with the key supplied or
\* retrieved: the secrets object is built from its answer.
GetFromUrlStatus ==
  /\ Running
  /\ entry = "get_from_url"
  /\ frame.pc = "status" \/ (frame.pc = "start" /\ ~NoApiKey(local.api_key))
  /\ LET url_base == ValidateUrlBase(local.url_base)
         host_url == GetHostUrl(url_base)
         api_key == IF frame.pc = "start" THEN local.api_key ELSE frame.current
         answer == IF server.status # 200 THEN server.status
                   ELSE IF api_key # server.api_key THEN 401
                   ELSE 200
     IN /\ calls' = Append(calls, Call("secrets", "system_status", "get", 0,
                                       [host_url |-> host_url, api_key |-> api_key],
                                       answer = 200, IF answer = 200 THEN 0 ELSE answer))
        /\ outcome' =
             IF answer = 200
               THEN [status |-> "returned",
                     value |-> [url_base |-> url_base, api_key |-> api_key,
                                version |-> server.version],
                     err |-> KeyError("none")]
               ELSE [status |-> "raised", value |-> FALSE,
                     err |-> SystemStatusError(ApiException(answer, Len(calls) + 1))]
        /\ frame' = NoFrame
  /\ UNCHANGED <<entry, mode, local, remote, server, server0, trace, results>>

NextSecrets == GetFromUrlKey \/ GetFromUrlStatus

\* A call of SonarrSecrets.get_from_url.
SpecSecrets == InitSecrets /\ [][NextSecrets]_vars

(* --------------------------------- claims ----------------------------- *)

C1Order ==
  <<"tags", "quality", "custom_formats", "download_clients", "indexers",
    "media_management", "profiles", "metadata", "general", "ui">>

\* C1: SonarrSettings.update_remote calls the sections one after another,
\* each once and each returning before the next is called, in the order
\* tags, quality, custom_formats, download_clients, indexers,
\* media_management, profiles, metadata, general, ui; a run that returns has
\* called all ten, and every remote call is issued by the section whose turn
\* it is.
C1_UpdateOrder ==
  (entry = "settings" /\ mode = "update") =>
     /\ FollowsOrder(C1Order)
     /\ CallsFollowOrder(C1Order)
     /\ frame.sec # "none" =>
          (Len(trace) % 2 = 1 /\ trace[Len(trace)].sec = frame.sec)
     /\ Returned => Len(trace) = 20

C1_Witness ==
  /\ entry = "settings" /\ mode = "update" /\ Returned
  /\ \E i, j \in 1..Len(calls) :
       /\ calls[i].sec = "tags" /\ calls[i].op = "create"
       /\ calls[j].sec = "indexers" /\ calls[j].op = "create"

C2Order ==
  <<"profiles", "indexers", "download_clients", "media_management", "tags",
    "custom_formats", "quality", "metadata", "general", "ui">>

\* C2: SonarrSettings.delete_remote calls the sections one after another,
\* each once, in the order profiles, indexers, download_clients,
\* media_management, tags, custom_formats, quality, metadata, general, ui;
\* every indexer deletion is issued before any download-client deletion.
C2_DeleteOrder ==
  (entry = "settings" /\ mode = "delete") =>
     /\ FollowsOrder(C2Order)
     /\ CallsFollowOrder(C2Order)
     /\ Returned => Len(trace) = 20
     /\ \A i, j \in 1..Len(calls) :
          (/\ calls[i].api = "indexers" /\ calls[i].op = "delete"
           /\ calls[j].api = "download_clients" /\ calls[j].op = "delete") => i < j

C2_Witness ==
  /\ entry = "settings" /\ mode = "delete" /\ Returned
  /\ \E i, j \in 1..Len(calls) :
       /\ calls[i].api = "indexers" /\ calls[i].op = "delete" /\ calls[i].ok
       /\ calls[j].api = "download_clients" /\ calls[j].op = "delete" /\ calls[j].ok

\* C3: when no section raises, update_remote and delete_remote of
\* SonarrSettings run all ten sections whatever the earlier ones returned,
\* and return true exactly when at least one section returned true.
C3_NoShortCircuit ==
  (entry = "settings" /\ Returned) =>
     /\ \A s \in Sections :
          /\ Cardinality({n \in 1..Len(trace) : trace[n].ev = "call" /\ trace[n].sec = s}) = 1
          /\ Cardinality({n \in 1..Len(trace) : trace[n].ev = "return" /\ trace[n].sec = s}) = 1
     /\ outcome.value = (\E n \in 1..Len(trace) : trace[n].ev = "return" /\ trace[n].val)

C3_Witness ==
  /\ entry = "settings" /\ Returned /\ outcome.value
  /\ \E n \in 1..Len(trace) : trace[n].ev = "return" /\ trace[n].sec = "tags" /\ trace[n].val
  /\ \E n \in 1..Len(trace) : trace[n].ev = "return" /\ trace[n].sec = "ui" /\ ~trace[n].val

\* A create or update call of the download clients or indexers section.
IsClientMutation(c) == c.sec \in ClientSections /\ c.op \in {"create", "update"}

\* C4: in a run of SonarrSettings.update_remote, every tag-create call of
\* the tags section comes strictly before any create or update call of the
\* indexers or download clients sections that carries that tag's id; the
\* tags section has issued all its creates before either of these sections
\* issues its first call.
C4_TagsBeforeReferences ==
  (entry = "settings" /\ mode = "update") =>
     \A i, j \in 1..Len(calls) :
        (calls[i].sec = "tags" /\ calls[i].op = "create") =>
           /\ (/\ IsClientMutation(calls[j])
               /\ calls[i].ok
               /\ calls[i].body.label \in DOMAIN TagIds(server.tags)
               /\ TagIds(server.tags)[calls[i].body.label] \in Range(calls[j].body.tags))
              => i < j
           /\ calls[j].sec \in ClientSections => i < j

C4_Witness ==
  /\ entry = "settings" /\ mode = "update"
  /\ \E i, j \in 1..Len(calls) :
       /\ calls[i].sec = "tags" /\ calls[i].op = "create" /\ calls[i].ok
       /\ calls[j].sec = "indexers" /\ IsClientMutation(calls[j])
       /\ TagIds(server.tags)[calls[i].body.label] \in Range(calls[j].body.tags)
       /\ i < j

\* C5: a remote call that raises ends the run: it is the last call of the
\* log (no retry, no later entry, no later section, no compensating call),
\* the run's outcome is that error with its status, the section it was
\* raised in never returns, and the instance holds exactly what the calls
\* answered before it applied.
C5_ErrorsPropagate ==
  /\ \A k \in 1..Len(calls) :
       ~calls[k].ok =>
          /\ k = Len(calls)
          /\ Raised
          /\ outcome.err = ApiError(calls[k].status, k)
  /\ Raised =>
       /\ frame.sec = "none"
       /\ Len(trace) = 2 * Len(results) + 1
       /\ trace[Len(trace)].ev = "call"
  /\ server = Replay(server0, calls)

C5_Witness ==
  /\ Raised
  /\ Len(calls) >= 3
  /\ ~calls[Len(calls)].ok /\ calls[Len(calls)].op = "create"
  /\ \E k \in 1..(Len(calls) - 1) : calls[k].op = "create" /\ calls[k].ok

\* The keys of the list exclusions a collection of local entries holds.
LocalKeys == {le.tmdb_id : le \in local.exclusions.definitions}

CreatesOf(body) == {k \in 1..Len(calls) : calls[k].op = "create" /\ calls[k].body = body}

\* C6: when update_remote of the tags or the list-exclusions collection
\* returns, every local entry whose key the remote collection lacks has
\* exactly one create call carrying its projected attributes and no update
\* call, and the result is true.
C6_CreateAbsent ==
  (mode = "update" /\ Returned) =>
     /\ entry = "tags" =>
          \A t \in local.tags :
             t \notin {x.label : x \in server0.tags} =>
                /\ Cardinality(CreatesOf([label |-> t])) = 1
                /\ outcome.value
     /\ entry = "exclusions" =>
          \A le \in local.exclusions.definitions :
             le.tmdb_id \notin {r.tmdbId : r \in server0.exclusions} =>
                /\ Cardinality(CreatesOf(ExclusionEncoded(le))) = 1
                /\ \A k \in 1..Len(calls) :
                     calls[k].op = "update" => calls[k].body.tmdbId # le.tmdb_id
                /\ outcome.value

DeletesOf(id) == {k \in 1..Len(calls) : calls[k].op = "delete" /\ calls[k].id = id}

\* C7: in ListExclusionsSettings.delete_remote, a remote entry whose key no
\* local entry has is not deleted and does not make the result true when
\* delete_unmanaged is false, and gets exactly one delete call, carrying its
\* remote id, with the result true, when delete_unmanaged is true; a remote
\* entry whose key a local entry has is never deleted.
C7_DeleteGating ==
  (entry = "exclusions" /\ mode = "delete") =>
     /\ \A r \in server0.exclusions : r.tmdbId \in LocalKeys => DeletesOf(r.id) = {}
     /\ \A k \in 1..Len(calls) :
          calls[k].op = "delete" =>
             /\ local.exclusions.delete_unmanaged
             /\ \E r \in server0.exclusions : r.id = calls[k].id /\ r.tmdbId \notin LocalKeys
     /\ Returned =>
          /\ \A r \in server0.exclusions :
               (r.tmdbId \notin LocalKeys /\ local.exclusions.delete_unmanaged) =>
                  Cardinality(DeletesOf(r.id)) = 1
          /\ outcome.value =
               (/\ local.exclusions.delete_unmanaged
                /\ \E r \in server0.exclusions : r.tmdbId \notin LocalKeys)

C7_Witness ==
  /\ entry = "exclusions" /\ mode = "delete" /\ Returned
  /\ local.exclusions.delete_unmanaged
  /\ \E r, q \in server0.exclusions :
       /\ r.tmdbId \notin LocalKeys /\ DeletesOf(r.id) # {} /\ r \notin server.exclusions
       /\ q.tmdbId \in LocalKeys /\ q \in server.exclusions

\* C8: update_remote of the tags and the list-exclusions collections issues
\* no delete call, and leaves a remote entry without a local counterpart as
\* it was (no update call targets it), whatever delete_unmanaged is; the tags
\* section issues no delete call in the delete pass either.
C8_UpdateNeverRemoves ==
  /\ \A k \in 1..Len(calls) : calls[k].sec = "tags" => calls[k].op # "delete"
  /\ mode = "update" =>
       /\ \A k \in 1..Len(calls) :
            calls[k].sec \in {"tags", "exclusions"} => calls[k].op # "delete"
       /\ \A t \in server0.tags : t \in server.tags
       /\ \A r \in server0.exclusions :
            r.tmdbId \notin LocalKeys =>
               /\ r \in server.exclusions
               /\ \A k \in 1..Len(calls) : calls[k].op = "update" => calls[k].id # r.id

C8_Witness ==
  /\ entry = "exclusions" /\ mode = "update" /\ Returned
  /\ local.exclusions.delete_unmanaged
  /\ \E k \in 1..Len(calls) : calls[k].op = "update" /\ calls[k].ok
  /\ \E r \in server0.exclusions : r.tmdbId \notin LocalKeys /\ r \in server.exclusions

\* The remote collection already equals the local one.
RemoteEqualsLocal ==
  \/ entry = "tags" /\ local.tags = remote.tags
  \/ entry = "exclusions" /\ local.exclusions.definitions = remote.exclusions
  \/ entry = "download_clients" /\ local.download_clients.definitions = remote.download_clients

\* C9: when the remote collection already equals the local one,
\* update_remote issues no create and no update call and returns false; the
\* change detector run with set_unchanged=True (list exclusions, download
\* clients) reports no change for equal objects.
C9_Idempotent ==
  (mode = "update" /\ RemoteEqualsLocal) =>
     /\ \A k \in 1..Len(calls) : calls[k].op \notin {"create", "update"}
     /\ Returned => ~outcome.value

C9_Witness ==
  /\ mode = "update" /\ RemoteEqualsLocal /\ Returned
  /\ entry = "exclusions"
  /\ Cardinality(local.exclusions.definitions) = 2

\* The keys of the listing the collection's update_remote fetched itself.
FreshKeys ==
  IF calls = <<>> \/ ~calls[1].ok THEN {}
  ELSE IF entry = "tags" THEN {t.label : t \in calls[1].body}
  ELSE {calls[1].body[n].tmdbId : n \in 1..Len(calls[1].body)}

\* C10: update_remote of the tags and the list-exclusions collections
\* matches local entries against the listing it fetches itself, not against
\* `remote`: an entry is created if and only if that listing lacks its key,
\* and is otherwise compared (never a failed lookup).
C10_MatchesFreshRead ==
  (mode = "update" /\ entry \in {"tags", "exclusions"}) =>
     /\ \A k \in 1..Len(calls) :
          calls[k].op = "create" =>
             (IF entry = "tags" THEN calls[k].body.label ELSE calls[k].body.tmdbId)
                \notin FreshKeys
     /\ ~(Raised /\ outcome.err.type = "KeyError")
     /\ Returned =>
          /\ \A t \in local.tags : t \notin FreshKeys => CreatesOf([label |-> t]) # {}
          /\ \A key \in LocalKeys :
               key \notin FreshKeys =>
                  \E k \in 1..Len(calls) : calls[k].op = "create" /\ calls[k].body.tmdbId = key

\* A table that gives no two labels the same id.
Injective(tag_ids) ==
  \A a, b \in DOMAIN tag_ids : tag_ids[a] = tag_ids[b] => a = b

\* C11: for an injective tag_ids table and a set of labels it contains, the
\* tags decoder applied to the tags encoder's result gives the set back;
\* NabCategory.decode(NabCategory.encode(c)) = c for every category c, and
\* NabCategory.encode(NabCategory.decode(n)) = n for every integer n.
C11_RoundTrips ==
  (entry = "codec" /\ Returned) =>
     /\ (mode = "tags" /\ Injective(local.tag_ids)) => outcome.value = local.v
     /\ mode \in {"category", "number"} => outcome.value = local.v

C11_Witness ==
  /\ entry = "codec" /\ Returned
  /\ mode = "tags"
  /\ Injective(local.tag_ids)
  /\ Cardinality(local.v) = 2
  /\ outcome.value = local.v

\* The field list a download-client call was to merge into: the schema of
\* the implementation on create, the live resource's list on update.
C12Template(c) ==
  IF c.op = "create"
    THEN (CHOOSE s \in Range(server.schemas) :
            Lower(s.implementation) = Lower(c.body.implementation)).fields
    ELSE (CHOOSE r \in server0.download_clients : r.id = c.id).fields

\* C12: the field list DownloadClient._create_remote / _update_remote sends
\* has the entries of the list it merged into (the schema template on
\* create, the live resource's fields on update), in the same order; an
\* entry whose name the mapping produced carries the local value and keeps
\* its other keys, every other entry is passed through unchanged.
C12_FieldsMerged ==
  (entry = "download_clients" /\ mode = "update") =>
     \A k \in 1..Len(calls) :
        calls[k].op \in {"create", "update"} =>
           LET body == calls[k].body
               dc == local.download_clients.definitions[body.name]
               template == C12Template(calls[k])
               produced == {e.r : e \in {x \in Range(RemoteMapOf(dc)) : x.is_field}}
           IN /\ Len(body.fields) = Len(template)
              /\ \A n \in 1..Len(template) :
                   IF template[n].name \in produced
                     THEN /\ DOMAIN body.fields[n] = DOMAIN template[n]
                          /\ \A key \in DOMAIN template[n] \ {"value"} :
                               body.fields[n][key] = template[n][key]
                          /\ body.fields[n].value = dc[template[n].name]
                     ELSE body.fields[n] = template[n]

C12_Witness ==
  /\ entry = "download_clients" /\ mode = "update" /\ Returned
  /\ \E k \in 1..Len(calls) :
       /\ calls[k].op = "update" /\ calls[k].ok
       /\ FieldValue(calls[k].body.fields, "host") = "nas"
       /\ FieldValue(C12Template(calls[k]), "host") = "localhost"
       /\ \E n \in 1..Len(calls[k].body.fields) : calls[k].body.fields[n].name = "urlBase"

\* A local download client that is to be created while the catalog has no
\* schema of its implementation.
C13Unsupported(name) ==
  /\ name \in DOMAIN local.download_clients.definitions
  /\ name \notin {r.name : r \in server0.download_clients}
  /\ SchemaMatches(local.download_clients.definitions[name], server.schemas) = {}

\* C13: creating a download client whose implementation matches no schema
\* of the remote catalog (letter case aside) fails with
\* SonarrConfigUnsupportedError, and no create call is issued for it.
C13_UnsupportedImplementation ==
  (entry = "download_clients" /\ mode = "update") =>
     \A name \in ClientNames :
        C13Unsupported(name) =>
           /\ \A k \in 1..Len(calls) :
                calls[k].op = "create" => calls[k].body.name # name
           /\ ~Returned
           /\ (Raised /\ \A k \in 1..Len(calls) : calls[k].ok) =>
                 outcome.err.type = "SonarrConfigUnsupportedError"

\* C14: SonarrSecrets.get_from_url called without an API key: when the key
\* retrieval is answered 401 the call fails with
\* SonarrSecretsUnauthorizedError; when it fails with another status the
\* SonarrAPIError propagates unchanged, with its status; in both cases no
\* system-status request is made and no secrets object is returned.
C14_KeyRetrievalFailure ==
  (entry = "get_from_url" /\ NoApiKey(local.api_key) /\ calls # <<>>) =>
     /\ calls[1].api = "initialize"
     /\ ~calls[1].ok =>
          /\ Len(calls) = 1
          /\ Raised
          /\ IF calls[1].status = 401
               THEN outcome.err.type = "SonarrSecretsUnauthorizedError"
               ELSE outcome.err = ApiError(calls[1].status, 1)

C14_Witness ==
  /\ entry = "get_from_url" /\ local.api_key = "" /\ Raised
  /\ Len(calls) = 1 /\ calls[1].api = "initialize" /\ calls[1].status = 500
  /\ outcome.err.type = "SonarrAPIError"

\* What the collaborator raised for the last request of get_from_url.
C15Raised ==
  LET n == Len(calls)
  IN IF calls[n].api = "initialize" THEN ApiError(calls[n].status, n)
     ELSE ApiException(calls[n].status, n)

\* C15 (as stated): in get_from_url only a 401 answer to the key retrieval is
\* translated; every other failed request, an unauthorized system-status
\* answer to an explicitly supplied key included, leaves the call as the
\* error the collaborator raised.
C15_OnlyKeyRetrievalHandled ==
  (entry = "get_from_url" /\ Raised) =>
     IF calls[Len(calls)].api = "initialize" /\ calls[Len(calls)].status = 401
       THEN outcome.err.type = "SonarrSecretsUnauthorizedError"
       ELSE outcome.err = C15Raised

\* C15 (amended): get_from_url translates exactly the unauthorized answers,
\* to the key retrieval and to the system-status request, whether the key
\* was supplied or retrieved, into SonarrSecretsUnauthorizedError; every
\* other failed request leaves the call as the error the collaborator raised.
C15_UnauthorizedHandled ==
  (entry = "get_from_url" /\ Raised) =>
     IF calls[Len(calls)].status = 401
       THEN outcome.err.type = "SonarrSecretsUnauthorizedError"
       ELSE outcome.err = C15Raised

C15_Witness ==
  /\ entry = "get_from_url" /\ local.api_key = "k2" /\ Raised
  /\ Len(calls) = 1 /\ calls[1].api = "system_status" /\ calls[1].status = 401
  /\ outcome.err = SonarrSecretsUnauthorizedError("Incorrect API key")

\* The scenario of C16: tag "anime" and one Newznab indexer with category
\* TV_HD carrying it, against an instance without tags and indexers.
C16Scenario ==
  /\ entry = "settings" /\ mode = "update"
  /\ local.tags = {"anime"}
  /\ DOMAIN local.indexers.definitions = {"c1"}
  /\ local.indexers.definitions["c1"] = Newznab(TRUE, {"anime"}, {NabMember("TV_HD")})
  /\ server0.tags = {} /\ server0.indexers = {}

\* The calls of the log, in order, that create, update or delete a tag or an
\* indexer.
C16Mutations ==
  SelectSeq(calls, LAMBDA c : c.sec \in {"tags", "indexers"} /\ c.op # "list")

\* C16: in that scenario, with every call answered, update_remote creates
\* tag "anime", which the instance stores under id 1, and afterwards creates
\* one indexer whose categories field is [5040] and whose tags are [1]; it
\* issues no other mutation for tags or indexers; a run that returns has
\* issued both and returns true.
C16_EndToEnd ==
  (C16Scenario /\ \A k \in 1..Len(calls) : calls[k].ok) =>
     LET m == C16Mutations
     IN /\ Len(m) <= 2
        /\ Len(m) >= 1 =>
             /\ m[1].sec = "tags" /\ m[1].op = "create" /\ m[1].body.label = "anime"
             /\ [id |-> 1, label |-> "anime"] \in server.tags
        /\ Len(m) = 2 =>
             /\ m[2].sec = "indexers" /\ m[2].op = "create"
             /\ FieldValue(m[2].body.fields, "categories") = <<5040>>
             /\ m[2].body.tags = <<1>>
             /\ m[2].body.implementation = "Newznab"
        /\ Returned => (Len(m) = 2 /\ outcome.value = TRUE)

C16_Witness ==
  /\ C16Scenario /\ Returned /\ outcome.value = TRUE
  /\ \A k \in 1..Len(calls) : calls[k].ok
  /\ Len(C16Mutations) = 2
  /\ FieldValue(C16Mutations[2].body.fields, "categories") = <<5040>>
  /\ C16Mutations[2].body.tags = <<1>>

\* C17: a ListExclusionsSettings object that update_remote or delete_remote
\* runs on holds no two definitions with the same tmdb_id: when the method
\* has built its table of local entries by tmdb_id, every definition is in
\* the table, none was collapsed there.
C17_KeysUnique ==
  (entry = "exclusions" /\ frame.sec = "exclusions" /\ frame.pc = "loop") =>
     /\ \A a, b \in local.exclusions.definitions : a.tmdb_id = b.tmdb_id => a = b
     /\ Range(DictValues(frame.mine)) = local.exclusions.definitions

\* The first entry with tmdb_id k in the order self.definitions was iterated.
C18First(k) ==
  frame.order[CHOOSE i \in 1..Len(frame.order) :
                /\ frame.order[i].tmdb_id = k
                /\ \A j \in 1..(i - 1) : frame.order[j].tmdb_id # k]

\* C18: in ListExclusionsSettings.update_remote, of the local entries that
\* share a tmdb_id the first one met is the entry of the table the loop
\* runs over, and every create call for that tmdb_id carries its attributes.
C18_FirstWins ==
  (entry = "exclusions" /\ mode = "update" /\ frame.sec = "exclusions" /\ frame.pc = "loop") =>
     /\ \A k \in DictKeys(frame.mine) : DictGet(frame.mine, k) = C18First(k)
     /\ \A n \in 1..Len(calls) :
          calls[n].op = "create" =>
             calls[n].body = ExclusionEncoded(C18First(calls[n].body.tmdbId))

\* sorted(Labels)
C19SortedLabels == <<"anime", "tv">>

\* The sort key of an entry still to be processed: the place of a tag in
\* sorted order, the tmdb_id of a list exclusion.
C19Key(e) == IF entry = "tags" THEN PosIn(C19SortedLabels, e) ELSE e.tmdb_id

\* C19: update_remote and delete_remote of the tags and the list-exclusions
\* collection process the entries in the collection's sorted order (a set
\* keeps no insertion order), so the index each entry gets and the sequence
\* of calls are the same in every run on the same inputs.
C19_Deterministic ==
  (entry \in {"tags", "exclusions"} /\ frame.sec = entry /\ frame.pc = "loop") =>
     \A i, j \in 1..Len(frame.todo) :
        i < j => C19Key(frame.todo[i]) <= C19Key(frame.todo[j])

\* The update calls of the log that carry tmdb_id k.
C20Updates(k) ==
  {n \in 1..Len(calls) : calls[n].op = "update" /\ calls[n].body.tmdbId = k}

\* The change detector's answer for local entry le against remote resource r.
C20Changed(le, r) ==
  GetUpdateRemoteAttrs(ExclusionMap, le, ExclusionFromRemote(r), ExclusionEncoded(le), TRUE).updated

C21Plain(map) == {map[k].r : k \in {n \in 1..Len(map) : ~map[n].is_field}}

\* C21: an update call of DownloadClient._update_remote or
\* ListExclusion._update_remote carries the full object: every mapped
\* attribute at its local encoded value, changed or not, and every other
\* attribute of the live resource (id, name, implementation, the fields the
\* map does not know) at the value the resource has.
C21_FullPayload ==
  (mode = "update" /\ entry \in {"download_clients", "exclusions"}) =>
     \A k \in 1..Len(calls) :
        calls[k].op = "update" =>
           LET body == calls[k].body IN
           IF entry = "exclusions"
             THEN LET r == CHOOSE x \in server0.exclusions : x.id = calls[k].id
                  IN /\ DOMAIN body = DOMAIN r
                     /\ \E le \in local.exclusions.definitions :
                          \A key \in DOMAIN ExclusionEncoded(le) :
                             body[key] = ExclusionEncoded(le)[key]
                     /\ \A key \in DOMAIN r \ DOMAIN ExclusionEncoded(CHOOSE le \in ListExclusions : TRUE) :
                          body[key] = r[key]
             ELSE LET r == CHOOSE x \in server0.download_clients : x.id = calls[k].id
                      dc == local.download_clients.definitions[r.name]
                      map == RemoteMapOf(dc)
                      enc == ClientEncoded(TagIds(server0.tags), dc)
                  IN /\ DOMAIN body = DOMAIN r
                     /\ \A n \in 1..Len(map) :
                          IF map[n].is_field
                            THEN FieldValue(body.fields, map[n].r) = enc[map[n].r]
                            ELSE body[map[n].r] = enc[map[n].r]
                     /\ \A key \in DOMAIN r \ (C21Plain(map) \cup {"fields"}) :
                          body[key] = r[key]
                     /\ Len(body.fields) = Len(r.fields)
                     /\ \A n \in 1..Len(r.fields) :
                          r.fields[n].name \notin {map[m].r : m \in 1..Len(map)} =>
                             body.fields[n] = r.fields[n]

C21_Witness ==
  /\ entry = "download_clients" /\ mode = "update" /\ Returned
  /\ \E k \in 1..Len(calls) :
       /\ calls[k].op = "update" /\ calls[k].ok
       /\ LET r == CHOOSE x \in server0.download_clients : x.id = calls[k].id
              dc == local.download_clients.definitions[r.name]
          IN /\ dc.enable = r.enable /\ calls[k].body.enable = r.enable
             /\ dc.host # FieldValue(r.fields, "host")
             /\ calls[k].body.tags = <<1>> /\ r.tags = <<1>>
             /\ calls[k].body.id = r.id /\ calls[k].body.implementation = r.implementation

\* The create calls of the log for natural key k.
C22Creates(k) ==
  {n \in 1..Len(calls) :
     /\ calls[n].op = "create"
     /\ k = (IF entry = "tags" THEN calls[n].body.label ELSE calls[n].body.tmdbId)}

\* The list calls of the log.
C22Lists == {n \in 1..Len(calls) : calls[n].op = "list"}

\* C22: while the instance may change under the run, update_remote reads
\* the collection once and never again; SonarrTagsSettings.update_remote
\* that returns has issued one create for every local tag its listing
\* lacked, also for a tag that appeared on the instance since, and
\* ListExclusionsSettings.update_remote that returns has issued one create
\* for every local tmdb_id the snapshot lacked, also for one that appeared
\* on the instance since.
C22_NoRecheck ==
  (mode = "update" /\ entry \in {"tags", "exclusions"}) =>
     /\ Cardinality(C22Lists) <= 1 /\ C22Lists \subseteq {1}
     /\ (entry = "tags" /\ Returned) =>
          \A l \in local.tags :
             l \notin {t.label : t \in calls[1].body} => Cardinality(C22Creates(l)) = 1
     /\ (entry = "exclusions" /\ Returned) =>
          \A k \in LocalKeys :
             k \notin {le.tmdb_id : le \in remote.exclusions} => Cardinality(C22Creates(k)) = 1

\* A tag appeared under the run before the run created it, and an exclusion
\* likewise: the instance holds the key twice after the run's own create.
C22_Witness ==
  /\ mode = "update" /\ Returned
  /\ \/ /\ entry = "tags"
        /\ server # Replay(server0, calls)
        /\ local.tags = Labels
        /\ \A l \in Labels : \E n \in C22Creates(l) : calls[n].ok
     \/ /\ entry = "exclusions"
        /\ \E a, b \in server.exclusions :
             /\ a # b /\ a.tmdbId = b.tmdbId
             /\ \E n \in C22Creates(a.tmdbId) : calls[n].ok

\* The category numbers of the NabCategory table.
C23Known == {NabCategory[k].value : k \in 1..Len(NabCategory)}

\* C23: a category a Newznab indexer was constructed with resolves to a
\* member of NabCategory: the encoder is never applied to an integer
\* outside the table, and no such integer comes out of it.
C23_UnknownCategoryRejected ==
  (entry = "codec" /\ mode = "category" /\ frame.pc = "back") =>
     /\ ~IsInt(local.v)
     /\ frame.current \in C23Known

\* The calls of the log that create, update or delete.
C24Mutating == {n \in 1..Len(calls) : calls[n].op \in {"create", "update", "delete"}}

\* C24: when SonarrTagsSettings.update_remote,
\* ListExclusionsSettings.update_remote or ListExclusionsSettings.delete_remote
\* returns, its result is true if and only if it issued a create, update or
\* delete call.
C24_ChangedExact ==
  (Returned /\ ((entry = "tags" /\ mode = "update") \/ entry = "exclusions")) =>
     (outcome.value <=> C24Mutating # {})

C24_Witness ==
  /\ Returned /\ entry = "exclusions" /\ mode = "delete"
  /\ outcome.value = TRUE
  /\ Cardinality(C24Mutating) = 1
  /\ \E r \in server0.exclusions : r \in server.exclusions

\* The listing made at the start of the call, as a set.
C25Listing == IF calls = <<>> \/ ~calls[1].ok THEN {} ELSE Range(calls[1].body)

\* The keys of the snapshot that the listing lacks and that the call has to
\* process: a local entry's key in update_remote, an unmanaged key under
\* delete_unmanaged in delete_remote.
C25Stale ==
  {k \in {le.tmdb_id : le \in remote.exclusions} \ FreshKeys :
     IF mode = "update" THEN k \in LocalKeys
     ELSE k \notin LocalKeys /\ local.exclusions.delete_unmanaged}

\* C25: in ListExclusionsSettings, every update or delete call targets the
\* id of a resource of the listing made at the start of the call (for an
\* update, the one with the tmdb_id sent); a snapshot key the listing lacks
\* and the call has to process gets no create, update or delete call, and
\* the call does not return: unless an earlier call failed, it ends in a
\* KeyError for such a key.
C25_IdsFromListing ==
  (entry = "exclusions" /\ calls # <<>> /\ calls[1].ok) =>
     /\ \A n \in 1..Len(calls) :
          /\ calls[n].op \in {"update", "delete"} =>
               \E r \in C25Listing : r.id = calls[n].id
          /\ calls[n].op = "update" =>
               \E r \in C25Listing : r.id = calls[n].id /\ r.tmdbId = calls[n].body.tmdbId
          /\ calls[n].op \in {"create", "update"} => calls[n].body.tmdbId \notin C25Stale
     /\ C25Stale # {} =>
          /\ ~Returned
          /\ (Raised /\ \A n \in 1..Len(calls) : calls[n].ok) =>
               /\ outcome.err.type = "KeyError"
               /\ \E k \in C25Stale : outcome.err.key = ToString(k)
     /\ (Raised /\ outcome.err.type = "KeyError") =>
          \E k \in C25Stale : outcome.err.key = ToString(k)

C25_Witness ==
  /\ entry = "exclusions" /\ mode = "delete" /\ Raised
  /\ outcome.err.type = "KeyError"
  /\ Len(calls) = 1 /\ calls[1].ok
  /\ \E k \in C25Stale : outcome.err.key = ToString(k)

\* The requests of the log to one API.
C26Requests(api) == {n \in 1..Len(calls) : calls[n].api = api}

\* An API key was passed to get_from_url (None and "" are no key).
C26Supplied == local.api_key \notin {"None", ""}

\* The key get_from_url works with once it has one.
C26Key ==
  IF C26Supplied THEN local.api_key ELSE server.handed

\* C26: get_from_url makes no key-retrieval request when a key is supplied
\* and exactly one, first, when none is; the system-status request, at most
\* one, follows with the supplied or retrieved key; a secrets object is
\* returned only after that request succeeded and carries that key and the
\* version reported; an unauthorized answer to it ends the call in
\* SonarrSecretsUnauthorizedError; a call that has ended and whose key
\* retrieval did not fail has made exactly one system-status request.
C26_RequestSequence ==
  entry = "get_from_url" =>
     LET keyreq == C26Requests("initialize")
         status == C26Requests("system_status")
     IN /\ IF C26Supplied
             THEN keyreq = {}
             ELSE keyreq \subseteq {1} /\ (calls # <<>> => keyreq = {1})
        /\ Cardinality(status) <= 1
        /\ \A n \in status :
             /\ n = Len(calls)
             /\ calls[n].body.api_key = C26Key
             /\ \A m \in keyreq : m < n /\ calls[m].ok
        /\ Returned =>
             /\ \E n \in status : calls[n].ok
             /\ outcome.value.api_key = C26Key
             /\ outcome.value.version = server.version
        /\ (~Running /\ \A m \in keyreq : calls[m].ok) => Cardinality(status) = 1
        /\ \A n \in status :
             (~calls[n].ok /\ calls[n].status = 401) =>
                Raised /\ outcome.err.type = "SonarrSecretsUnauthorizedError"

C26_Witness ==
  /\ entry = "get_from_url" /\ Returned
  /\ local.api_key = "None" /\ Len(calls) = 2
  /\ calls[1].api = "initialize" /\ calls[2].api = "system_status"
  /\ calls[2].body.api_key = server.handed
  /\ outcome.value.version = server.version

====
